---- MODULE Spec2Model ----
(***************************************************************************)
(* Curated-skills CLI (cli/src/index.js, cli/bin/curated-skills.js): the   *)
(* skill-management engine as a state machine over the filesystem under    *)
(* the two install roots, <cwd>/.claude/skills and <home>/.claude/skills.  *)
(*                                                                         *)
(* Strings that the code compares, lower-cases or searches are sequences   *)
(* of one-character strings, so that toLowerCase and includes are computed *)
(* character by character.  File names inside a skill directory and the    *)
(* two base directories are never transformed by the code and are plain    *)
(* strings.                                                                *)
(***************************************************************************)
EXTENDS Naturals, Sequences, FiniteSets, TLC

(* Canonical skill names: the keys of SKILLS_REGISTRY, index.js:11-50 *)
K_pptx == <<"p","p","t","x">>
K_doc_coauthoring == <<"d","o","c","-","c","o","a","u","t","h","o","r","i","n","g">>
K_internal_comms == <<"i","n","t","e","r","n","a","l","-","c","o","m","m","s">>
K_better_auth == <<"b","e","t","t","e","r","-","a","u","t","h">>
K_create_auth == <<"c","r","e","a","t","e","-","a","u","t","h">>
K_web_design_guidelines == <<"w","e","b","-","d","e","s","i","g","n","-","g","u","i","d","e","l","i","n","e","s">>
K_bulletproof_react == <<"b","u","l","l","e","t","p","r","o","o","f","-","r","e","a","c","t">>
K_vercel_react == <<"v","e","r","c","e","l","-","r","e","a","c","t">>

(* Alias strings: the keys of SKILL_ALIASES, index.js:59-66 *)
A_better_auth_best_practices == <<"b","e","t","t","e","r","-","a","u","t","h","-","b","e","s","t","-","p","r","a","c","t","i","c","e","s">>
A_create_auth_skill == <<"c","r","e","a","t","e","-","a","u","t","h","-","s","k","i","l","l">>
A_powerpoint == <<"p","o","w","e","r","p","o","i","n","t">>
A_auth == <<"a","u","t","h">>
A_react == <<"r","e","a","c","t">>
A_vercel == <<"v","e","r","c","e","l">>
A_docs == <<"d","o","c","s">>
A_comms == <<"c","o","m","m","s">>

(* Category strings *)
Cat_general == <<"g","e","n","e","r","a","l">>
Cat_auth == <<"a","u","t","h">>
Cat_frontend == <<"f","r","o","n","t","e","n","d">>

(* The keys of SKILLS_REGISTRY in declaration (insertion) order *)
RegistryOrder ==
  << K_pptx,
     K_doc_coauthoring,
     K_internal_comms,
     K_better_auth,
     K_create_auth,
     K_web_design_guidelines,
     K_bulletproof_react,
     K_vercel_react >>

RegistryEntries ==
  << [path |-> <<"g","e","n","e","r","a","l","/","p","p","t","x">>,
      category |-> Cat_general,
      description |-> <<"P","o","w","e","r","P","o","i","n","t"," ","c","r","e","a","t","i","o","n",","," ","e","d","i","t","i","n","g",","," ","a","n","d"," ","O","O","X","M","L"," ","m","a","n","i","p","u","l","a","t","i","o","n">>],
     [path |-> <<"g","e","n","e","r","a","l","/","d","o","c","-","c","o","a","u","t","h","o","r","i","n","g">>,
      category |-> Cat_general,
      description |-> <<"S","t","r","u","c","t","u","r","e","d"," ","w","o","r","k","f","l","o","w"," ","f","o","r"," ","c","o","l","l","a","b","o","r","a","t","i","v","e"," ","d","o","c","u","m","e","n","t","a","t","i","o","n">>],
     [path |-> <<"g","e","n","e","r","a","l","/","i","n","t","e","r","n","a","l","-","c","o","m","m","s">>,
      category |-> Cat_general,
      description |-> <<"T","e","m","p","l","a","t","e","s"," ","f","o","r"," ","i","n","t","e","r","n","a","l"," ","c","o","m","m","u","n","i","c","a","t","i","o","n","s">>],
     [path |-> <<"a","u","t","h","/","s","k","i","l","l","s","/","b","e","t","t","e","r","-","a","u","t","h","-","b","e","s","t","-","p","r","a","c","t","i","c","e","s">>,
      category |-> Cat_auth,
      description |-> <<"B","e","t","t","e","r"," ","A","u","t","h"," ","f","r","a","m","e","w","o","r","k"," ","b","e","s","t"," ","p","r","a","c","t","i","c","e","s"," ","f","o","r"," ","T","y","p","e","S","c","r","i","p","t">>],
     [path |-> <<"a","u","t","h","/","s","k","i","l","l","s","/","c","r","e","a","t","e","-","a","u","t","h","-","s","k","i","l","l">>,
      category |-> Cat_auth,
      description |-> <<"C","r","e","a","t","e"," ","a","u","t","h","e","n","t","i","c","a","t","i","o","n"," ","l","a","y","e","r","s"," ","u","s","i","n","g"," ","B","e","t","t","e","r"," ","A","u","t","h">>],
     [path |-> <<"a","u","t","h","/","s","k","i","l","l","s","/","w","e","b","-","d","e","s","i","g","n","-","g","u","i","d","e","l","i","n","e","s">>,
      category |-> Cat_frontend,
      description |-> <<"U","I"," ","c","o","m","p","l","i","a","n","c","e"," ","c","h","e","c","k","e","r"," ","f","o","r"," ","W","e","b"," ","I","n","t","e","r","f","a","c","e"," ","G","u","i","d","e","l","i","n","e","s">>],
     [path |-> <<"f","r","o","n","t","e","n","d","/","r","e","a","c","t","-","n","e","x","t","j","s","/","s","k","i","l","l","s","/","b","u","l","l","e","t","p","r","o","o","f","-","r","e","a","c","t">>,
      category |-> Cat_frontend,
      description |-> <<"F","e","a","t","u","r","e","-","b","a","s","e","d"," ","R","e","a","c","t"," ","a","r","c","h","i","t","e","c","t","u","r","e"," ","p","a","t","t","e","r","n","s">>],
     [path |-> <<"f","r","o","n","t","e","n","d","/","r","e","a","c","t","-","n","e","x","t","j","s","/","s","k","i","l","l","s","/","v","e","r","c","e","l","-","r","e","a","c","t","-","b","e","s","t","-","p","r","a","c","t","i","c","e","s">>,
      category |-> Cat_frontend,
      description |-> <<"V","e","r","c","e","l"," ","R","e","a","c","t"," ","p","e","r","f","o","r","m","a","n","c","e"," ","o","p","t","i","m","i","z","a","t","i","o","n"," ","(","4","5"," ","r","u","l","e","s",")">>] >>

(* The keys of SKILL_ALIASES in declaration (insertion) order *)
AliasOrder ==
  << A_better_auth_best_practices,
     A_create_auth_skill,
     A_powerpoint,
     A_auth,
     A_react,
     A_vercel,
     A_docs,
     A_comms >>

(* An alias table in which vercel names the skill by its directory and not *)
(* by its registry key                                                     *)
AliasTargets_byDirectoryName ==
  << K_better_auth,
     K_create_auth,
     K_pptx,
     K_better_auth,
     K_bulletproof_react,
     <<"v","e","r","c","e","l","-","r","e","a","c","t","-","b","e","s","t","-","p","r","a","c","t","i","c","e","s">>,
     K_doc_coauthoring,
     K_internal_comms >>

AliasTargets ==
  << K_better_auth,
     K_create_auth,
     K_pptx,
     K_better_auth,
     K_bulletproof_react,
     K_vercel_react,
     K_doc_coauthoring,
     K_internal_comms >>

Range(s) == {s[i] : i \in DOMAIN s}

IndexOf(s, x) == CHOOSE i \in DOMAIN s : s[i] = x

RegistryKeys == Range(RegistryOrder)

(* const SKILLS_REGISTRY = { ... }: canonical name -> descriptor *)
SKILLS_REGISTRY == [k \in RegistryKeys |-> RegistryEntries[IndexOf(RegistryOrder, k)]]

AliasKeys == Range(AliasOrder)

(* const SKILL_ALIASES = { ... }: alias -> canonical name *)
SKILL_ALIASES == [a \in AliasKeys |-> AliasTargets[IndexOf(AliasOrder, a)]]

(***************************************************************************)
(* String.prototype.toLowerCase on the characters the inputs use.          *)
(***************************************************************************)
UpperCase == <<"A","B","C","D","E","F","G","H","I","J","K","L","M","N","O","P","Q","R","S","T","U","V","W","X","Y","Z">>

LowerCase == <<"a","b","c","d","e","f","g","h","i","j","k","l","m","n","o","p","q","r","s","t","u","v","w","x","y","z">>

LowerChar(c) == IF c \in Range(UpperCase) THEN LowerCase[IndexOf(UpperCase, c)] ELSE c

toLowerCase(s) == [i \in DOMAIN s |-> LowerChar(s[i])]

(***************************************************************************)
(* SKILL_ALIASES is an object literal, so SKILL_ALIASES[key] also finds    *)
(* the properties inherited from Object.prototype.  The inherited          *)
(* properties with an all-lower-case name are "constructor" and            *)
(* "__proto__"; their values are truthy and are not strings.               *)
(***************************************************************************)
P_constructor == <<"c","o","n","s","t","r","u","c","t","o","r">>

P___proto__ == <<"_","_","p","r","o","t","o","_","_">>

ObjectFunction == <<"[Function: Object]">>

ObjectPrototype == <<"[Object: null prototype] {}">>

InheritedKeys == {P_constructor, P___proto__}

Inherited(key) == IF key = P_constructor THEN ObjectFunction ELSE ObjectPrototype

IsString(v) == v \notin {ObjectFunction, ObjectPrototype}

(* The value of an option that was not given, and of a property that an   *)
(* object does not have                                                   *)
Undefined == <<"[undefined]">>

(* A string as a condition: undefined and the empty string are falsy *)
IsTruthy(v) == v # Undefined /\ v # <<>>

(* A resolveSkillName that falls back to the name as typed *)
resolveSkillName_keepCase(name) ==
  LET normalized == toLowerCase(name)
  IN  IF normalized \in AliasKeys THEN SKILL_ALIASES[normalized]
      ELSE IF normalized \in InheritedKeys THEN Inherited(normalized)
      ELSE name

(* A resolveSkillName without the alias lookup: the name is taken as typed *)
resolveSkillName_noAlias(name) == toLowerCase(name)

(* function resolveSkillName(name), index.js:74-77 *)
resolveSkillName(name) ==
  LET normalized == toLowerCase(name)
  IN  IF normalized \in AliasKeys THEN SKILL_ALIASES[normalized]
      ELSE IF normalized \in InheritedKeys THEN Inherited(normalized)
      ELSE normalized

(* SKILLS_REGISTRY[resolvedName]: a non-string key is converted to a string *)
(* that is no key of the registry, so the lookup yields undefined           *)
HasSkillInfo(resolvedName) == IsString(resolvedName) /\ resolvedName \in RegistryKeys

(***************************************************************************)
(* Command-line inputs that are no key of either table.                    *)
(***************************************************************************)
U_PPTX == <<"P","P","T","X">>

U_my_skill == <<"m","y","-","s","k","i","l","l">>

U_My_Skill == <<"M","y","-","S","k","i","l","l">>

(* The <skill> arguments the commands are run with *)
InputNames == {K_pptx, A_powerpoint, U_PPTX, U_my_skill, U_My_Skill, P_constructor}

(* Names of directories that may exist under an install root beforehand *)
DirNames == {K_pptx, A_powerpoint, U_my_skill, U_My_Skill}

(* At most this many skill directories exist before the first command *)
MaxPre == 2

(***************************************************************************)
(* The filesystem.  A skill directory is a function from the relative      *)
(* paths of its files to their content; a root is absent, or holds skill   *)
(* directories by name.  Roots are named by their base directory.          *)
(***************************************************************************)
HomeDir == "/home/user"

ProjectDir == "/work/project"

BaseDirs == {HomeDir, ProjectDir}

SkillMd == "SKILL.md"

ApiLayerMd == "references/api-layer.md"

NotesTxt == "notes.txt"

NoEntries == [n \in {} |-> [x \in {} |-> "old"]]

AbsentRoot == [exists |-> FALSE, entries |-> NoEntries]

(* The packaged tree of a skill: the marker file and a reference document *)
SourceTree == [x \in {SkillMd, ApiLayerMd} |-> "packaged"]

(* Skill directories of an earlier version, with and without the marker *)
OldTrees == { [x \in {SkillMd, NotesTxt} |-> "old"], [x \in {NotesTxt} |-> "old"] }

VARIABLES fs, fs0, cwd, packaged, proc

vars == <<fs, fs0, cwd, packaged, proc>>

(* A source check that always finds the source directory *)
SourceExists_always(skillInfo) == TRUE

(* function getSkillsRoot() and path.join(skillsRoot, skillInfo.path):    *)
(* the source directory is named by the descriptor's path                 *)
sourcePath(skillInfo) == skillInfo.path

SourceExists(skillInfo) == sourcePath(skillInfo) \in packaged

(* A getTargetDir that takes the working directory for both scopes *)
getTargetDir_cwdOnly(isGlobal) == cwd

(* function getTargetDir(isGlobal), index.js:79-84 *)
getTargetDir(isGlobal) == IF isGlobal THEN HomeDir ELSE cwd

(* fs.pathExists(path.join(targetDir, name)) *)
PathExists(f, dir, name) == f[dir].exists /\ name \in DOMAIN f[dir].entries

Restrict(g, S) == [x \in S |-> g[x]]

Without(entries, name) == Restrict(entries, DOMAIN entries \ {name})

With(entries, name, tree) ==
  [n \in DOMAIN entries \cup {name} |-> IF n = name THEN tree ELSE entries[n]]

(* Files of src written over dst, files of dst that src lacks kept *)
Merge(dst, src) == [x \in DOMAIN dst \cup DOMAIN src |-> IF x \in DOMAIN src THEN src[x] ELSE dst[x]]

SetEntries(f, dir, e) == [f EXCEPT ![dir] = [exists |-> TRUE, entries |-> e]]

(***************************************************************************)
(* fs-extra.  Each call either succeeds or rejects; a rejected remove or   *)
(* copy may have done part of its work.  Results are [ok, fs] records.     *)
(***************************************************************************)
FsRemove(f, dir, name) ==
  IF ~PathExists(f, dir, name) THEN {[ok |-> TRUE, fs |-> f]}
  ELSE {[ok |-> TRUE, fs |-> SetEntries(f, dir, Without(f[dir].entries, name))]}
       \cup {[ok |-> FALSE,
              fs |-> SetEntries(f, dir, With(f[dir].entries, name, Restrict(f[dir].entries[name], S)))]
             : S \in SUBSET DOMAIN f[dir].entries[name]}

FsEnsureDir(f, dir) ==
  IF f[dir].exists THEN {[ok |-> TRUE, fs |-> f]}
  ELSE {[ok |-> TRUE, fs |-> SetEntries(f, dir, NoEntries)], [ok |-> FALSE, fs |-> f]}

FsCopy(f, dir, name, src) ==
  LET dst == IF PathExists(f, dir, name) THEN f[dir].entries[name] ELSE [x \in {} |-> "old"]
  IN  {[ok |-> TRUE, fs |-> SetEntries(f, dir, With(f[dir].entries, name, Merge(dst, src)))]}
      \cup {[ok |-> FALSE, fs |-> f]}
      \cup {[ok |-> FALSE,
             fs |-> SetEntries(f, dir, With(f[dir].entries, name, Merge(dst, Restrict(src, S))))]
            : S \in (SUBSET DOMAIN src) \ {DOMAIN src}}

(***************************************************************************)
(* One invocation of the command line.  proc.log is what the invocation    *)
(* has reported so far, confirmation prompts included; proc.exit is the    *)
(* process exit code once proc.pc = "exited".                              *)
(***************************************************************************)
Commands == {"add", "remove", "update"}

IdleProc ==
  [pc |-> "idle", cmd |-> "none", skillName |-> <<>>, global |-> FALSE, yes |-> FALSE,
   log |-> <<>>, exit |-> 0, prior |-> "none", out |-> {}, category |-> Undefined, query |-> Undefined,
   ended |-> "running"]

Log(p, event) == [p EXCEPT !.log = Append(@, event)]

Goto(p, pc) == [p EXCEPT !.pc = pc]

(* The process ends with the given exit code; proc.ended records what    *)
(* ended it                                                               *)
Terminate(p, code, how) == [p EXCEPT !.pc = "exited", !.exit = code, !.ended = how]

(* process.exit(code), called inside installSkill and removeSkill *)
ProcessExit(p, code) == Terminate(p, code, "process.exit")

(* The command's function returns to the action in curated-skills.js,   *)
(* which returns too: the process ends with exit code 0                 *)
Return(p) == Terminate(p, p.exit, "returned")

(* A rejected promise that no handler catches: the action's promise is   *)
(* dropped by program.parse, so the exit code is the runtime's choice:   *)
(* 1 where unhandled rejections are fatal, 0 where they only warn        *)
UnhandledRejection(p, f) ==
  {[p |-> Terminate(Log(p, "UnhandledRejection"), code, "unhandled rejection"), fs |-> f] : code \in {0, 1}}

(* removeSkill returns: updateSkill goes on to installSkill, index.js:192-193 *)
ReturnFromRemove(p) == IF p.cmd = "update" THEN Goto(p, "install") ELSE Return(p)

(* installSkill returns: the action ends and the process exits normally *)
ReturnFromInstall(p) == Return(p)

(* updateSkill that passes the caller's options on as they are *)
UpdateOptions_asGiven(p) == p

(* options.yes = true, index.js:191 *)
UpdateOptions(p) == [p EXCEPT !.yes = TRUE]

(* An updateSkill that looks the name up before it removes anything *)
UpdateStart_registryFirst(p, f) ==
  IF ~HasSkillInfo(resolveSkillName(p.skillName))
  THEN {[p |-> ProcessExit(Log(p, "NotFound"), 1), fs |-> f]}
  ELSE {[p |-> Goto(UpdateOptions(p), "remove"), fs |-> f]}

(* An updateSkill that installs over the old directory without removing it *)
UpdateStart_skipRemove(p, f) == {[p |-> Goto(UpdateOptions(p), "install"), fs |-> f]}

(* updateSkill up to its call of removeSkill, index.js:187-192 *)
UpdateStart(p, f) == {[p |-> Goto(UpdateOptions(p), "remove"), fs |-> f]}

(* removeSkill up to the confirmation, index.js:150-160 *)
RemoveStart(p, f) ==
  LET resolvedName == resolveSkillName(p.skillName)
      targetDir == getTargetDir(p.global)
  IN  IF ~IsString(resolvedName) THEN UnhandledRejection(p, f)
      ELSE IF ~PathExists(f, targetDir, resolvedName)
           THEN {[p |-> ReturnFromRemove(Log(p, "NotInstalled")), fs |-> f]}
      ELSE IF ~p.yes THEN {[p |-> Goto(p, "remove_confirm"), fs |-> f]}
      ELSE {[p |-> Goto(p, "remove_rm"), fs |-> f]}

(* A removal prompt whose answer is not looked at *)
RemoveConfirm_ignoreAnswer(p, f) ==
  {[p |-> Goto(Log(Log(p, "ConfirmRemove"), IF confirm THEN "Yes" ELSE "No"), "remove_rm"),
    fs |-> f] : confirm \in BOOLEAN}

(* inquirer.prompt "Remove skill ...?" and its answer, index.js:161-171 *)
RemoveConfirm(p, f) ==
  {[p |-> IF confirm THEN Goto(Log(Log(p, "ConfirmRemove"), "Yes"), "remove_rm")
          ELSE ReturnFromRemove(Log(Log(Log(p, "ConfirmRemove"), "No"), "RemovalCancelled")),
    fs |-> f] : confirm \in BOOLEAN}

(* A removal that deletes the directory named as typed, not as resolved *)
RemoveDelete_rawName(p, f) ==
  LET targetDir == getTargetDir(p.global)
  IN  {[p |-> IF r.ok THEN ReturnFromRemove(Log(p, "Removed"))
              ELSE ProcessExit(Log(p, "RemoveFailed"), 1),
        fs |-> r.fs] : r \in FsRemove(f, targetDir, p.skillName)}

(* fs.remove(targetPath) in removeSkill's try block, index.js:176-184 *)
RemoveDelete(p, f) ==
  LET resolvedName == resolveSkillName(p.skillName)
      targetDir == getTargetDir(p.global)
  IN  {[p |-> IF r.ok THEN ReturnFromRemove(Log(p, "Removed"))
              ELSE ProcessExit(Log(p, "RemoveFailed"), 1),
        fs |-> r.fs] : r \in FsRemove(f, targetDir, resolvedName)}

(* An installSkill that asks even when --yes is given *)
InstallNeedsConfirm_always(p) == TRUE

(* if (!options.yes), index.js:112 *)
InstallNeedsConfirm(p) == ~p.yes

(* An installSkill that looks at the target before the registry *)
InstallStart_targetFirst(p, f) ==
  LET resolvedName == resolveSkillName(p.skillName)
      targetDir == getTargetDir(p.global)
  IN  IF PathExists(f, targetDir, resolvedName)
      THEN IF InstallNeedsConfirm(p) THEN {[p |-> Goto(p, "install_confirm"), fs |-> f]}
           ELSE {[p |-> Goto(p, "install_rm"), fs |-> f]}
      ELSE IF ~HasSkillInfo(resolvedName)
           THEN {[p |-> ProcessExit(Log(p, "NotFound"), 1), fs |-> f]}
      ELSE IF ~SourceExists(SKILLS_REGISTRY[resolvedName])
           THEN {[p |-> ProcessExit(Log(p, "SourceMissing"), 1), fs |-> f]}
      ELSE {[p |-> Goto(p, "install_copy"), fs |-> f]}

(* An installSkill that reports an unknown name and returns to its caller *)
InstallStart_notFoundReturns(p, f) ==
  LET resolvedName == resolveSkillName(p.skillName)
      targetDir == getTargetDir(p.global)
  IN  IF ~HasSkillInfo(resolvedName)
      THEN {[p |-> ReturnFromInstall(Log(p, "NotFound")), fs |-> f]}
      ELSE IF ~SourceExists(SKILLS_REGISTRY[resolvedName])
           THEN {[p |-> ProcessExit(Log(p, "SourceMissing"), 1), fs |-> f]}
      ELSE IF PathExists(f, targetDir, resolvedName)
           THEN IF InstallNeedsConfirm(p) THEN {[p |-> Goto(p, "install_confirm"), fs |-> f]}
                ELSE {[p |-> Goto(p, "install_rm"), fs |-> f]}
      ELSE {[p |-> Goto(p, "install_copy"), fs |-> f]}

(* installSkill up to the confirmation, index.js:86-112 *)
InstallStart(p, f) ==
  LET resolvedName == resolveSkillName(p.skillName)
      targetDir == getTargetDir(p.global)
  IN  IF ~HasSkillInfo(resolvedName)
      THEN {[p |-> ProcessExit(Log(p, "NotFound"), 1), fs |-> f]}
      ELSE IF ~SourceExists(SKILLS_REGISTRY[resolvedName])
           THEN {[p |-> ProcessExit(Log(p, "SourceMissing"), 1), fs |-> f]}
      ELSE IF PathExists(f, targetDir, resolvedName)
           THEN IF InstallNeedsConfirm(p) THEN {[p |-> Goto(p, "install_confirm"), fs |-> f]}
                ELSE {[p |-> Goto(p, "install_rm"), fs |-> f]}
      ELSE {[p |-> Goto(p, "install_copy"), fs |-> f]}

(* An overwrite prompt whose answer is not looked at *)
InstallConfirm_ignoreAnswer(p, f) ==
  {[p |-> Goto(Log(Log(p, "ConfirmOverwrite"), IF overwrite THEN "Yes" ELSE "No"), "install_rm"),
    fs |-> f] : overwrite \in BOOLEAN}

(* What the user types at a confirm prompt: y, n, or Enter alone *)
ConfirmKeys == {"y", "n", "enter"}

(* inquirer's confirm prompt: Enter alone yields the prompt's default *)
ConfirmAnswer(key, default) == IF key = "y" THEN TRUE ELSE IF key = "n" THEN FALSE ELSE default

(* default: false, index.js:117 *)
OverwriteDefault == FALSE

(* inquirer.prompt "... already exists. Overwrite?" answered with key, index.js:113-123 *)
InstallConfirmKey(p, f, key) ==
  LET overwrite == ConfirmAnswer(key, OverwriteDefault)
  IN  {[p |-> IF overwrite THEN Goto(Log(Log(p, "ConfirmOverwrite"), "Yes"), "install_rm")
              ELSE ReturnFromInstall(Log(Log(Log(p, "ConfirmOverwrite"), "No"), "InstallationCancelled")),
        fs |-> f]}

(* inquirer.prompt "... already exists. Overwrite?" and its answer, index.js:113-123 *)
InstallConfirm(p, f) == UNION {InstallConfirmKey(p, f, key) : key \in ConfirmKeys}

(* An installSkill that copies over the existing target without deleting it *)
InstallDelete_skip(p, f) == {[p |-> Goto(p, "install_copy"), fs |-> f]}

(* await fs.remove(targetPath), outside any try block, index.js:125 *)
InstallDelete(p, f) ==
  LET resolvedName == resolveSkillName(p.skillName)
      targetDir == getTargetDir(p.global)
  IN  UNION {IF r.ok THEN {[p |-> Goto(p, "install_copy"), fs |-> r.fs]}
             ELSE UnhandledRejection(p, r.fs) : r \in FsRemove(f, targetDir, resolvedName)}

(* An installSkill that makes the root and reports success without copying *)
InstallCopy_noCopy(p, f) ==
  {IF e.ok THEN [p |-> ReturnFromInstall(Log(p, "Installed")), fs |-> e.fs]
   ELSE [p |-> ProcessExit(Log(p, "InstallFailed"), 1), fs |-> e.fs]
   : e \in FsEnsureDir(f, getTargetDir(p.global))}

(* An installSkill whose catch block reports the failure and returns *)
InstallCopy_failSilently(p, f) ==
  LET resolvedName == resolveSkillName(p.skillName)
      targetDir == getTargetDir(p.global)
      failed(g) == [p |-> ReturnFromInstall(Log(p, "InstallFailed")), fs |-> g]
  IN  UNION {IF ~e.ok THEN {failed(e.fs)}
             ELSE {IF c.ok THEN [p |-> ReturnFromInstall(Log(p, "Installed")), fs |-> c.fs]
                   ELSE failed(c.fs) : c \in FsCopy(e.fs, targetDir, resolvedName, SourceTree)}
             : e \in FsEnsureDir(f, targetDir)}

(* fs.ensureDir(targetDir) then fs.copy(sourcePath, targetPath), index.js:130-147 *)
InstallCopy(p, f) ==
  LET resolvedName == resolveSkillName(p.skillName)
      targetDir == getTargetDir(p.global)
      failed(g) == [p |-> ProcessExit(Log(p, "InstallFailed"), 1), fs |-> g]
  IN  UNION {IF ~e.ok THEN {failed(e.fs)}
             ELSE {IF c.ok THEN [p |-> ReturnFromInstall(Log(p, "Installed")), fs |-> c.fs]
                   ELSE failed(c.fs) : c \in FsCopy(e.fs, targetDir, resolvedName, SourceTree)}
             : e \in FsEnsureDir(f, targetDir)}

(* async function listInstalled(options), index.js:196-230: the names it *)
(* reports, as a set (the order is that of fs.readdir)                   *)
listInstalled(f, isGlobal) ==
  LET targetDir == getTargetDir(isGlobal)
  IN  IF ~f[targetDir].exists THEN {}
      ELSE {dir \in DOMAIN f[targetDir].entries : SkillMd \in DOMAIN f[targetDir].entries[dir]}

(* const info = SKILLS_REGISTRY[skill]; if (info), index.js:222-223: the   *)
(* directory name is looked up as it is on disk, and the lookup also finds *)
(* what the registry object inherits from Object.prototype                 *)
RegistryLookupIsTruthy(skill) == skill \in RegistryKeys \/ skill \in InheritedKeys

(* The lines listInstalled prints, index.js:221-228: a name followed by   *)
(* the description of its registry entry, or by "(custom skill)"          *)
listInstalledReport(f, isGlobal) ==
  {[skill |-> skill, custom |-> ~RegistryLookupIsTruthy(skill)] : skill \in listInstalled(f, isGlobal)}

(* The installed command, index.js:196-230: reads the install root and    *)
(* prints; it writes nothing                                              *)
ListInstalledStep(p, f) ==
  LET skills == listInstalled(f, p.global)
  IN  IF ~f[getTargetDir(p.global)].exists \/ skills = {}
      THEN {[p |-> Return(Log(p, "NoSkillsInstalled")), fs |-> f]}
      ELSE {[p |-> Return([Log(p, "InstalledSkills") EXCEPT !.out = listInstalledReport(f, p.global)]),
             fs |-> f]}

(***************************************************************************)
(* The catalog queries: list and search.  They read the two tables only.   *)
(***************************************************************************)
(* An includes that matches at the start of the string only *)
includes_prefixOnly(s, q) == Len(q) <= Len(s) /\ SubSeq(s, 1, Len(q)) = q

(* An includes that finds the empty string nowhere *)
includes_nonEmpty(s, q) ==
  /\ q # <<>>
  /\ Len(q) <= Len(s)
  /\ \E i \in 0..(Len(s) - Len(q)) : SubSeq(s, i + 1, i + Len(q)) = q

(* String.prototype.includes *)
includes(s, q) ==
  /\ Len(q) <= Len(s)
  /\ \E i \in 0..(Len(s) - Len(q)) : SubSeq(s, i + 1, i + Len(q)) = q

(* { name, ...info }, index.js:245 and index.js:286 *)
Descriptor(name) ==
  [name |-> name,
   path |-> SKILLS_REGISTRY[name].path,
   category |-> SKILLS_REGISTRY[name].category,
   description |-> SKILLS_REGISTRY[name].description]

(* categories[info.category].push(...), index.js:242-245: a category that *)
(* is new becomes the last property of the object                         *)
PushSkill(categories, category, skill) ==
  IF \E j \in DOMAIN categories : categories[j].category = category
  THEN [j \in DOMAIN categories |->
          IF categories[j].category = category
          THEN [categories[j] EXCEPT !.skills = Append(@, skill)]
          ELSE categories[j]]
  ELSE Append(categories, [category |-> category, skills |-> <<skill>>])

(* Object.entries(SKILLS_REGISTRY).forEach, index.js:239-246, from the    *)
(* i-th entry on                                                          *)
RECURSIVE GroupByCategory(_, _, _)
GroupByCategory(i, category, categories) ==
  IF i > Len(RegistryOrder) THEN categories
  ELSE LET name == RegistryOrder[i]
           info == SKILLS_REGISTRY[name]
       IN  IF IsTruthy(category) /\ info.category # category
           THEN GroupByCategory(i + 1, category, categories)
           ELSE GroupByCategory(i + 1, category, PushSkill(categories, info.category, Descriptor(name)))

(* A listSkills that lists every entry whatever the filter *)
listSkills_noFilter(category) == GroupByCategory(1, Undefined, <<>>)

(* async function listSkills(options), index.js:232-274: the categories   *)
(* it prints, each with its skills, in the order it prints them           *)
listSkills(category) == GroupByCategory(1, category, <<>>)

(* The list command: prints and returns *)
ListSkillsStep(p, f) ==
  {[p |-> Return([Log(p, "AvailableSkills") EXCEPT !.out = listSkills(p.category)]), fs |-> f]}

(* { name: target, ...info, matchedAlias: alias }, index.js:294; a       *)
(* result of the first pass has no matchedAlias property                  *)
SearchResult(name, matchedAlias) ==
  [name |-> name,
   path |-> SKILLS_REGISTRY[name].path,
   category |-> SKILLS_REGISTRY[name].category,
   description |-> SKILLS_REGISTRY[name].description,
   matchedAlias |-> matchedAlias]

(* Object.entries(SKILLS_REGISTRY).forEach, index.js:280-288, from the    *)
(* i-th entry on                                                          *)
RECURSIVE SearchRegistry(_, _, _)
SearchRegistry(i, normalizedQuery, results) ==
  IF i > Len(RegistryOrder) THEN results
  ELSE LET name == RegistryOrder[i]
           info == SKILLS_REGISTRY[name]
       IN  IF \/ includes(name, normalizedQuery)
              \/ includes(toLowerCase(info.description), normalizedQuery)
              \/ includes(info.category, normalizedQuery)
           THEN SearchRegistry(i + 1, normalizedQuery, Append(results, SearchResult(name, Undefined)))
           ELSE SearchRegistry(i + 1, normalizedQuery, results)

(* An alias pass that does not look for the target among the results *)
RECURSIVE SearchAliases_noDedup(_, _, _)
SearchAliases_noDedup(i, normalizedQuery, results) ==
  IF i > Len(AliasOrder) THEN results
  ELSE LET alias == AliasOrder[i]
           target == SKILL_ALIASES[alias]
       IN  IF includes(alias, normalizedQuery) /\ target \in RegistryKeys
           THEN SearchAliases_noDedup(i + 1, normalizedQuery, Append(results, SearchResult(target, alias)))
           ELSE SearchAliases_noDedup(i + 1, normalizedQuery, results)

(* Object.entries(SKILL_ALIASES).forEach, index.js:291-298, from the i-th *)
(* entry on                                                               *)
RECURSIVE SearchAliases(_, _, _)
SearchAliases(i, normalizedQuery, results) ==
  IF i > Len(AliasOrder) THEN results
  ELSE LET alias == AliasOrder[i]
           target == SKILL_ALIASES[alias]
       IN  IF /\ includes(alias, normalizedQuery)
              /\ ~\E j \in DOMAIN results : results[j].name = target
              /\ target \in RegistryKeys
           THEN SearchAliases(i + 1, normalizedQuery, Append(results, SearchResult(target, alias)))
           ELSE SearchAliases(i + 1, normalizedQuery, results)

(* A search that leaves the alias pass out *)
searchSkills_noAliasPass(query) == SearchRegistry(1, toLowerCase(query), <<>>)

(* async function searchSkills(query), index.js:276-319: the results in   *)
(* the order they are printed                                             *)
searchSkills(query) ==
  LET normalizedQuery == toLowerCase(query)
  IN  SearchAliases(1, normalizedQuery, SearchRegistry(1, normalizedQuery, <<>>))

(* The search command, index.js:300-318 *)
SearchSkillsStep(p, f) ==
  LET results == searchSkills(p.query)
  IN  IF Len(results) = 0
      THEN {[p |-> Return([Log(p, "NoSkillsFound") EXCEPT !.out = results]), fs |-> f]}
      ELSE {[p |-> Return([Log(p, "Found") EXCEPT !.out = results]), fs |-> f]}

(* The steps of the running invocation from (p, f): a set of [p, fs] *)
Steps(p, f) ==
  CASE p.pc = "update" -> UpdateStart(p, f)
    [] p.pc = "remove" -> RemoveStart(p, f)
    [] p.pc = "remove_confirm" -> RemoveConfirm(p, f)
    [] p.pc = "remove_rm" -> RemoveDelete(p, f)
    [] p.pc = "install" -> InstallStart(p, f)
    [] p.pc = "install_confirm" -> InstallConfirm(p, f)
    [] p.pc = "install_rm" -> InstallDelete(p, f)
    [] p.pc = "install_copy" -> InstallCopy(p, f)
    [] p.pc = "installed" -> ListInstalledStep(p, f)
    [] p.pc = "list" -> ListSkillsStep(p, f)
    [] p.pc = "search" -> SearchSkillsStep(p, f)
    [] OTHER -> {}

(* program.command(...).action(...): the command surface calls the core, *)
(* curated-skills.js:20-52                                               *)
Dispatch(cmd, skill, global, yes) ==
  [pc |-> IF cmd = "add" THEN "install" ELSE cmd, cmd |-> cmd, skillName |-> skill,
   global |-> global, yes |-> yes, log |-> <<>>, exit |-> 0, prior |-> "none", out |-> {},
   category |-> Undefined, query |-> Undefined, ended |-> "running"]

(***************************************************************************)
(* Initial states: any working directory, any packaging of the sources of  *)
(* the skills the inputs name, and up to MaxPre existing skill directories *)
(* under the two roots.                                                    *)
(***************************************************************************)
Slots == BaseDirs \X DirNames

InputPaths == {SKILLS_REGISTRY[resolveSkillName(n)].path : n \in {m \in InputNames : HasSkillInfo(resolveSkillName(m))}}

AllPaths == {SKILLS_REGISTRY[k].path : k \in RegistryKeys}

(* The two roots with at most MaxPre of the given slots taken *)
RootsOver(slots) ==
  UNION { { [d \in BaseDirs |->
              LET mine == {s \in chosen : s[1] = d}
              IN  IF mine = {} /\ d \notin made THEN AbsentRoot
                  ELSE [exists |-> TRUE,
                        entries |-> [n \in {s[2] : s \in mine} |-> tree[<<d, n>>]]]]
            : tree \in [chosen -> OldTrees], made \in SUBSET BaseDirs }
          : chosen \in {c \in SUBSET slots : Cardinality(c) <= MaxPre} }

InitialRoots == RootsOver(Slots)

Init ==
  /\ cwd \in BaseDirs
  /\ packaged \in {AllPaths \ missing : missing \in SUBSET InputPaths}
  /\ fs \in InitialRoots
  /\ fs0 = fs
  /\ proc = IdleProc

Begin ==
  /\ proc.pc = "idle"
  /\ \E cmd \in Commands, skill \in InputNames, global \in BOOLEAN, yes \in BOOLEAN :
       proc' = Dispatch(cmd, skill, global, yes)
  /\ fs0' = fs
  /\ UNCHANGED <<fs, cwd, packaged>>

(* curated-skills installed [-g], curated-skills.js:63-70 *)
BeginInstalled ==
  /\ proc.pc = "idle"
  /\ \E global \in BOOLEAN : proc' = Dispatch("installed", <<>>, global, FALSE)
  /\ fs0' = fs
  /\ UNCHANGED <<fs, cwd, packaged>>

Step(pc, results) ==
  /\ proc.pc = pc
  /\ \E r \in results : proc' = r.p /\ fs' = r.fs
  /\ UNCHANGED <<fs0, cwd, packaged>>

DoUpdateStart == Step("update", UpdateStart(proc, fs))

DoRemoveStart == Step("remove", RemoveStart(proc, fs))

DoRemoveConfirm == Step("remove_confirm", RemoveConfirm(proc, fs))

DoRemoveDelete == Step("remove_rm", RemoveDelete(proc, fs))

DoInstallStart == Step("install", InstallStart(proc, fs))

DoInstallConfirm == Step("install_confirm", InstallConfirm(proc, fs))

DoInstallDelete == Step("install_rm", InstallDelete(proc, fs))

DoInstallCopy == Step("install_copy", InstallCopy(proc, fs))

DoListInstalled == Step("installed", ListInstalledStep(proc, fs))

(* The process is stopped from outside (a signal) while it runs *)
Interrupt ==
  /\ proc.pc \notin {"idle", "exited"}
  /\ proc' = Terminate(Log(proc, "Interrupted"), 130, "signal")
  /\ UNCHANGED <<fs, fs0, cwd, packaged>>

Next ==
  \/ Begin
  \/ DoUpdateStart
  \/ DoRemoveStart
  \/ DoRemoveConfirm
  \/ DoRemoveDelete
  \/ DoInstallStart
  \/ DoInstallConfirm
  \/ DoInstallDelete
  \/ DoInstallCopy
  \/ BeginInstalled
  \/ DoListInstalled
  \/ Interrupt

Spec == Init /\ [][Next]_vars

(***************************************************************************)
(* Sessions that start with directories under the install roots that the   *)
(* commands did not create, a directory named "constructor" among them.    *)
(***************************************************************************)
FoundNames == {K_pptx, U_my_skill, P_constructor}

FoundRoots == RootsOver(BaseDirs \X FoundNames)

InitFound ==
  /\ cwd \in BaseDirs
  /\ packaged \in {AllPaths \ missing : missing \in SUBSET InputPaths}
  /\ fs \in FoundRoots
  /\ fs0 = fs
  /\ proc = IdleProc

SpecFound == InitFound /\ [][Next]_vars

(***************************************************************************)
(* Sessions that query the catalog: list with or without a category, and   *)
(* search.                                                                 *)
(***************************************************************************)
Cat_Auth == <<"A","u","t","h">>

Cat_design == <<"d","e","s","i","g","n">>

(* The values of options.category: not given, empty, the three categories  *)
(* of the registry, and two strings that are no category                   *)
CategoryOptions == {Undefined, <<>>, Cat_general, Cat_auth, Cat_frontend, Cat_Auth, Cat_design}

Substrings(s) == {SubSeq(s, i, j) : i \in 1..(Len(s) + 1), j \in 0..Len(s)}

Q_Auth == <<"A","u","t","h">>

Q_AUTH == <<"A","U","T","H">>

Q_ooxml == <<"o","o","x","m","l">>

Q_TypeScript == <<"T","y","p","e","S","c","r","i","p","t">>

Q_45_rules == <<"(","4","5"," ","r","u","l","e","s",")">>

Q_kubernetes == <<"k","u","b","e","r","n","e","t","e","s">>

Q_authz == <<"a","u","t","h","z">>

Q_LL == <<"L","L">>

(* The <query> arguments of search: every substring of an alias, of a     *)
(* canonical name and of a category, words of the descriptions in both    *)
(* letter cases, and strings that occur nowhere                           *)
Queries ==
  UNION {Substrings(s) : s \in AliasKeys \cup RegistryKeys \cup {Cat_general, Cat_auth, Cat_frontend}}
    \cup {Q_Auth, Q_AUTH, Q_ooxml, Q_TypeScript, Q_45_rules, Q_kubernetes, Q_authz, Q_LL, U_PPTX}

InitCatalog ==
  /\ cwd \in BaseDirs
  /\ packaged \in {AllPaths \ missing : missing \in SUBSET InputPaths}
  /\ fs \in RootsOver({})
  /\ fs0 = fs
  /\ proc = IdleProc

(* curated-skills list [-c <category>], curated-skills.js:54-61, and the  *)
(* default action, curated-skills.js:82-86                                *)
BeginList ==
  /\ proc.pc = "idle"
  /\ \E category \in CategoryOptions :
       proc' = [Dispatch("list", <<>>, FALSE, FALSE) EXCEPT !.category = category]
  /\ fs0' = fs
  /\ UNCHANGED <<fs, cwd, packaged>>

(* curated-skills search <query>, curated-skills.js:73-79 *)
BeginSearch ==
  /\ proc.pc = "idle"
  /\ \E query \in Queries :
       proc' = [Dispatch("search", <<>>, FALSE, FALSE) EXCEPT !.query = query]
  /\ fs0' = fs
  /\ UNCHANGED <<fs, cwd, packaged>>

DoListSkills == Step("list", ListSkillsStep(proc, fs))

DoSearchSkills == Step("search", SearchSkillsStep(proc, fs))

NextCatalog ==
  \/ BeginList
  \/ DoListSkills
  \/ BeginSearch
  \/ DoSearchSkills
  \/ Interrupt

SpecCatalog == InitCatalog /\ [][NextCatalog]_vars

(***************************************************************************)
(* A session in which a successful add of a skill is followed by a remove  *)
(* of the same name in the same scope.                                     *)
(***************************************************************************)
Last(s) == s[Len(s)]

BeginRemoveAfterInstall ==
  /\ proc.pc = "exited"
  /\ proc.cmd = "add"
  /\ proc.prior = "none"
  /\ proc.log # <<>>
  /\ Last(proc.log) = "Installed"
  /\ \E yes \in BOOLEAN :
       proc' = [Dispatch("remove", proc.skillName, proc.global, yes) EXCEPT !.prior = "installed"]
  /\ fs0' = fs
  /\ UNCHANGED <<fs, cwd, packaged>>

SpecRoundTrip == Init /\ [][Next \/ BeginRemoveAfterInstall]_vars

(***************************************************************************)
(* Whole invocations: every way the invocation p can run to its exit from  *)
(* the filesystem f when nothing interrupts it.                            *)
(***************************************************************************)
RECURSIVE Runs(_, _)
Runs(p, f) ==
  IF p.pc = "exited" THEN {[p |-> p, fs |-> f]}
  ELSE UNION {Runs(r.p, r.fs) : r \in Steps(p, f)}

(* What an invocation leaves behind: its reports, exit code and filesystem *)
Result(r) == [log |-> r.p.log, exit |-> r.p.exit, fs |-> r.fs]

Results(cmd, skill, global, yes, f) == {Result(r) : r \in Runs(Dispatch(cmd, skill, global, yes), f)}

Logged(event) == \E i \in DOMAIN proc.log : proc.log[i] = event

(* The invocation has run to its exit without being interrupted *)
Completed == proc.pc = "exited" /\ proc.log # <<>> /\ ~Logged("Interrupted")

Outcome == Last(proc.log)

ResolvedName == resolveSkillName(proc.skillName)

TargetDir == getTargetDir(proc.global)

(* The invocation answered a confirmation prompt with the given answer *)
Answered(prompt, answer) ==
  \E i \in DOMAIN proc.log : i < Len(proc.log) /\ proc.log[i] = prompt /\ proc.log[i + 1] = answer

(* No invocation has started: the filesystem is a starting state *)
Idle == proc.pc = "idle"

(***************************************************************************)
(* Properties of install, remove and update.                               *)
(***************************************************************************)

(* C1: for every canonical name N of the registry, every scope and every   *)
(* prior state of the scope root, once install(N) has completed with       *)
(* success, listInstalled on the same scope contains N.  Stated of the     *)
(* invocation that has just run, and of every run of install(N) from the   *)
(* current filesystem for every key of the registry.                       *)
C1_InstalledIsListed ==
  /\ (Completed /\ proc.cmd = "add" /\ proc.skillName \in RegistryKeys /\ Outcome = "Installed")
       => proc.skillName \in listInstalled(fs, proc.global)
  /\ Idle =>
       \A N \in RegistryKeys, g \in BOOLEAN, y \in BOOLEAN :
         \A r \in Results("add", N, g, y, fs) :
           Last(r.log) = "Installed" => N \in listInstalled(r.fs, g)

C1_Witness ==
  /\ Completed /\ proc.cmd = "add" /\ proc.skillName = K_pptx /\ Outcome = "Installed"
  /\ PathExists(fs0, TargetDir, K_pptx)
  /\ K_pptx \notin listInstalled(fs0, proc.global)
  /\ K_pptx \in listInstalled(fs, proc.global)

SameEntry(f, g, dir, name) ==
  /\ PathExists(f, dir, name) <=> PathExists(g, dir, name)
  /\ PathExists(f, dir, name) => f[dir].entries[name] = g[dir].entries[name]

(* C3: for every alias A of the alias table with canonical name C, from    *)
(* every filesystem state and for every scope, skipConfirm value and       *)
(* confirmation answer, install(A) reports, exits and leaves the           *)
(* filesystem exactly as install(C) does, and a directory named A is       *)
(* neither created nor changed.                                            *)
C3_AliasInstallsAsCanonical ==
  /\ Idle =>
       \A A \in AliasKeys, g \in BOOLEAN, y \in BOOLEAN :
         /\ Results("add", A, g, y, fs) = Results("add", SKILL_ALIASES[A], g, y, fs)
         /\ \A r \in Results("add", A, g, y, fs) : SameEntry(r.fs, fs, getTargetDir(g), A)
  /\ (Completed /\ proc.cmd = "add" /\ proc.skillName \in AliasKeys)
       => /\ [log |-> proc.log, exit |-> proc.exit, fs |-> fs]
               \in Results("add", SKILL_ALIASES[proc.skillName], proc.global, proc.yes, fs0)
          /\ SameEntry(fs, fs0, TargetDir, proc.skillName)

C3_Witness ==
  /\ Completed /\ proc.cmd = "add" /\ proc.skillName = A_powerpoint /\ Outcome = "Installed"
  /\ Answered("ConfirmOverwrite", "Yes")
  /\ fs[TargetDir].entries[K_pptx] = SourceTree
  /\ ~PathExists(fs, TargetDir, A_powerpoint)

(* Reports that end removeSkill without a return to its caller *)
RemoveFailures == {"RemoveFailed", "UnhandledRejection"}

(* remove(N) with skipConfirm and then, unless the removal failed,         *)
(* install(N) with skipConfirm, as two invocations                         *)
RemoveThenInstall(N, g, f) ==
  UNION { IF Last(r1.log) \in RemoveFailures THEN {r1}
          ELSE {[log |-> r1.log \o r2.log, exit |-> r2.exit, fs |-> r2.fs]
                : r2 \in Results("add", N, g, TRUE, r1.fs)}
          : r1 \in Results("remove", N, g, TRUE, f) }

Prompts == {"ConfirmRemove", "ConfirmOverwrite"}

(* C4: for every name, scope and filesystem state, an update(N) that is    *)
(* not interrupted reports, exits and leaves the filesystem exactly as     *)
(* remove(N) with skipConfirm followed by install(N) with skipConfirm,     *)
(* and update asks for no confirmation whatever options it is given.       *)
C4_UpdateIsRemoveThenInstall ==
  /\ Idle =>
       \A N \in InputNames, g \in BOOLEAN, y \in BOOLEAN :
         /\ Results("update", N, g, y, fs) = RemoveThenInstall(N, g, fs)
         /\ \A r \in Results("update", N, g, y, fs) : Range(r.log) \cap Prompts = {}
  /\ proc.cmd = "update" => Range(proc.log) \cap Prompts = {}
  /\ (Completed /\ proc.cmd = "update")
       => [log |-> proc.log, exit |-> proc.exit, fs |-> fs]
            \in RemoveThenInstall(proc.skillName, proc.global, fs0)

C4_Witness ==
  /\ Completed /\ proc.cmd = "update" /\ proc.log = <<"Removed", "Installed">>
  /\ NotesTxt \in DOMAIN fs0[TargetDir].entries[ResolvedName]
  /\ fs[TargetDir].entries[ResolvedName] = SourceTree

(* C5: when install(N) finds an existing target, skipConfirm is not set    *)
(* and the confirmation is declined, the invocation ends cancelled with    *)
(* exit code 0 and the whole filesystem is as it was.                      *)
C5_DeclinedInstallChangesNothing ==
  (Completed /\ proc.cmd = "add" /\ Answered("ConfirmOverwrite", "No"))
    => /\ Outcome = "InstallationCancelled"
       /\ proc.exit = 0
       /\ fs = fs0

C5_Witness ==
  /\ Completed /\ proc.cmd = "add" /\ ~proc.yes /\ Answered("ConfirmOverwrite", "No")
  /\ PathExists(fs0, TargetDir, ResolvedName)
  /\ Outcome = "InstallationCancelled"
  /\ fs = fs0

(* C6: after a successful install(N) over an existing target directory     *)
(* (skipConfirm set, or the overwrite confirmed) the target directory is   *)
(* exactly the source tree: nothing of the previous target remains.        *)
C6_OverwriteReplacesWholeDirectory ==
  (Completed /\ proc.cmd = "add" /\ Outcome = "Installed" /\ PathExists(fs0, TargetDir, ResolvedName))
    => /\ PathExists(fs, TargetDir, ResolvedName)
       /\ fs[TargetDir].entries[ResolvedName] = SourceTree

C6_Witness ==
  /\ Completed /\ proc.cmd = "add" /\ Outcome = "Installed" /\ proc.yes
  /\ PathExists(fs0, TargetDir, ResolvedName)
  /\ NotesTxt \in DOMAIN fs0[TargetDir].entries[ResolvedName]
  /\ fs[TargetDir].entries[ResolvedName] = SourceTree

(* C7: install(name) of a name whose resolved form has no descriptor in    *)
(* the registry reports NotFound, exits non-zero, asks no confirmation and *)
(* changes nothing on the filesystem, whatever exists under the root.      *)
C7_UnknownNameIsNotFound ==
  (Completed /\ proc.cmd = "add" /\ ~HasSkillInfo(ResolvedName))
    => /\ proc.log = <<"NotFound">>
       /\ proc.exit # 0
       /\ fs = fs0

C7_Witness ==
  /\ Completed /\ proc.cmd = "add" /\ proc.skillName = U_my_skill /\ ~proc.yes
  /\ PathExists(fs0, TargetDir, U_my_skill)
  /\ proc.log = <<"NotFound">>

(* C8: install(N) of a registered N whose source directory is missing      *)
(* reports SourceMissing and exits non-zero before it looks at the target: *)
(* no confirmation is asked and an installed target stays as it is.        *)
C8_MissingSourceFailsFirst ==
  (Completed /\ proc.cmd = "add" /\ HasSkillInfo(ResolvedName)
     /\ SKILLS_REGISTRY[ResolvedName].path \notin packaged)
    => /\ proc.log = <<"SourceMissing">>
       /\ proc.exit # 0
       /\ fs = fs0

C8_Witness ==
  /\ Completed /\ proc.cmd = "add" /\ proc.skillName = K_pptx /\ ~proc.yes
  /\ PathExists(fs0, TargetDir, K_pptx)
  /\ K_pptx \in listInstalled(fs0, proc.global)
  /\ proc.log = <<"SourceMissing">>
  /\ fs = fs0

(* C9: remove(name) when nothing exists at the resolved target path        *)
(* reports not-installed, exits with code 0, asks no confirmation and      *)
(* changes nothing on the filesystem.                                      *)
C9_RemoveAbsentIsNotInstalled ==
  (Completed /\ proc.cmd = "remove"
     /\ ~(IsString(ResolvedName) /\ PathExists(fs0, TargetDir, ResolvedName)))
    => /\ proc.log = <<"NotInstalled">>
       /\ proc.exit = 0
       /\ fs = fs0

(* C10: remove(name) changes the filesystem only when skipConfirm is set   *)
(* or the confirmation has been answered yes; when the confirmation is     *)
(* declined the invocation ends cancelled with exit code 0 and the whole   *)
(* filesystem is as it was.                                                *)
C10_RemoveOnlyAfterConfirmation ==
  [][ /\ (proc.cmd = "remove" /\ fs' # fs) => (proc.yes \/ Answered("ConfirmRemove", "Yes"))
      /\ ((Completed /\ proc.cmd = "remove" /\ Answered("ConfirmRemove", "No"))
            => (Outcome = "RemovalCancelled" /\ proc.exit = 0 /\ fs = fs0))' ]_vars

C10_Witness ==
  /\ Completed /\ proc.cmd = "remove" /\ ~proc.yes /\ Answered("ConfirmRemove", "Yes")
  /\ Outcome = "Removed"
  /\ PathExists(fs0, TargetDir, ResolvedName)
  /\ ~PathExists(fs, TargetDir, ResolvedName)

Count(log, event) == Cardinality({i \in DOMAIN log : log[i] = event})

(* C11 as claimed: install invokes the confirmation exactly when something *)
(* exists at the target path and skipConfirm is not set.                   *)
C11_PromptIffTargetExists ==
  (Completed /\ proc.cmd = "add")
    => (Logged("ConfirmOverwrite")
          <=> (PathExists(fs0, TargetDir, ResolvedName) /\ ~proc.yes))

(* C11 amended: an install whose name resolves to a registered skill with  *)
(* an existing source invokes the confirmation exactly when something      *)
(* exists at the target path and skipConfirm is not set (an install that   *)
(* ends NotFound or SourceMissing never invokes it); it is invoked at most *)
(* once, Enter alone answers no, and the filesystem is not changed before  *)
(* the answer is yes.                                                      *)
C11_PromptIffTargetExistsAfterChecks ==
  [][ /\ ((Completed /\ proc.cmd = "add")
            => /\ Logged("ConfirmOverwrite")
                    <=> /\ HasSkillInfo(ResolvedName)
                        /\ SKILLS_REGISTRY[ResolvedName].path \in packaged
                        /\ PathExists(fs0, TargetDir, ResolvedName)
                        /\ ~proc.yes
               /\ Count(proc.log, "ConfirmOverwrite") <= 1)'
      /\ (proc.cmd = "add" /\ proc.pc = "install_confirm")
            => \A r \in InstallConfirmKey(proc, fs, "enter") :
                 Last(r.p.log) = "InstallationCancelled" /\ r.p.pc = "exited" /\ r.fs = fs0
      /\ (proc.cmd = "add" /\ fs' # fs /\ PathExists(fs0, TargetDir, ResolvedName))
            => (proc.yes \/ Answered("ConfirmOverwrite", "Yes")) ]_vars

C11_Witness ==
  /\ Completed /\ proc.cmd = "add" /\ ~proc.yes
  /\ PathExists(fs0, TargetDir, ResolvedName)
  /\ Count(proc.log, "ConfirmOverwrite") = 1
  /\ Answered("ConfirmOverwrite", "Yes")
  /\ Outcome = "Installed"

SuccessOutcomes == {"Installed", "Removed", "NotInstalled"}

DeclinedOutcomes == {"InstallationCancelled", "RemovalCancelled"}

FailureOutcomes == {"NotFound", "SourceMissing", "InstallFailed", "RemoveFailed"}

(* C12: every invocation of install, remove or update ends with exit code  *)
(* 0 on success and on a declined confirmation, and with a non-zero exit   *)
(* code on NotFound, SourceMissing and on a filesystem failure in any      *)
(* delete or copy step, the delete of the existing target that install     *)
(* performs before copying included.                                       *)
C12_ExitCodes ==
  [][ /\ (Completed => /\ (Outcome \in SuccessOutcomes \cup DeclinedOutcomes => proc.exit = 0)
                       /\ (Outcome \in FailureOutcomes => proc.exit # 0))'
      /\ (proc.pc = "install_rm" /\ proc'.pc = "exited" /\ Last(proc'.log) = "UnhandledRejection")
            => proc'.exit # 0 ]_vars

(* The roots of the two scopes as the data model names them: the local     *)
(* root is under the working directory, the global one under the home      *)
ScopeRoot(isGlobal) == IF isGlobal THEN HomeDir ELSE cwd

(* C13 as claimed: for every working directory and home directory, an      *)
(* invocation run with one scope leaves the root of the other scope, and   *)
(* what listInstalled reports for the other scope, unchanged.              *)
C13_OtherScopeUntouched ==
  proc.pc # "idle"
    => /\ fs[ScopeRoot(~proc.global)] = fs0[ScopeRoot(~proc.global)]
       /\ listInstalled(fs, ~proc.global) = listInstalled(fs0, ~proc.global)

(* C13 amended: an invocation run with one scope changes the filesystem    *)
(* only under that scope's root; when the working directory is not the     *)
(* home directory the root of the other scope, and what listInstalled      *)
(* reports for the other scope, are unchanged.                             *)
C13_OnlyOwnRootChanges ==
  proc.pc # "idle"
    => /\ \A d \in BaseDirs : d # ScopeRoot(proc.global) => fs[d] = fs0[d]
       /\ cwd # HomeDir
            => /\ fs[ScopeRoot(~proc.global)] = fs0[ScopeRoot(~proc.global)]
               /\ listInstalled(fs, ~proc.global) = listInstalled(fs0, ~proc.global)

C13_Witness ==
  /\ Completed /\ proc.cmd = "add" /\ proc.global /\ Outcome = "Installed"
  /\ cwd # HomeDir
  /\ ResolvedName \in listInstalled(fs0, FALSE)
  /\ ResolvedName \notin listInstalled(fs0, TRUE)
  /\ ResolvedName \in listInstalled(fs, TRUE)
  /\ fs[cwd] = fs0[cwd]

(* C14: listInstalled(scope) reports nothing when the scope root does not  *)
(* exist; otherwise it reports exactly the immediate entries D of the root *)
(* for which <root>/D/SKILL.md exists, an entry whose name is no key of    *)
(* the registry being reported as a custom skill; it changes nothing.      *)
C14_ListInstalled ==
  (Completed /\ proc.cmd = "installed")
    => LET root == fs0[ScopeRoot(proc.global)]
       IN  /\ fs = fs0
           /\ ~root.exists => proc.out = {}
           /\ root.exists
                 => {o.skill : o \in proc.out}
                      = {D \in DOMAIN root.entries : SkillMd \in DOMAIN root.entries[D]}
           /\ \A o \in proc.out : o.custom <=> o.skill \notin RegistryKeys

(* The position in the catalog of the first entry of a category *)
FirstOfCategory(category) ==
  CHOOSE i \in DOMAIN RegistryOrder :
    /\ RegistryEntries[i].category = category
    /\ \A j \in 1..(i - 1) : RegistryEntries[j].category # category

Positions(groups) == UNION {{<<j, i>> : i \in DOMAIN groups[j].skills} : j \in DOMAIN groups}

(* groups shows exactly the entries named in wanted, each once and under   *)
(* its own category with its descriptor, the categories in the order of    *)
(* their first appearance in the catalog and the entries of a category in  *)
(* catalog order                                                           *)
GroupedInCatalogOrder(groups, wanted) ==
  /\ \A pos \in Positions(groups) :
       LET skill == groups[pos[1]].skills[pos[2]]
       IN  /\ skill.name \in wanted
           /\ skill = Descriptor(skill.name)
           /\ groups[pos[1]].category = skill.category
  /\ \A name \in wanted :
       Cardinality({pos \in Positions(groups) : groups[pos[1]].skills[pos[2]].name = name}) = 1
  /\ \A j \in DOMAIN groups : groups[j].skills # <<>>
  /\ \A j, k \in DOMAIN groups :
       j < k => FirstOfCategory(groups[j].category) < FirstOfCategory(groups[k].category)
  /\ \A j \in DOMAIN groups : \A i, k \in DOMAIN groups[j].skills :
       i < k => IndexOf(RegistryOrder, groups[j].skills[i].name) < IndexOf(RegistryOrder, groups[j].skills[k].name)
  /\ wanted = {} => groups = <<>>

InCategory(category) == {name \in RegistryKeys : SKILLS_REGISTRY[name].category = category}

(* C15 as claimed: list groups the entries by category, categories in the  *)
(* order of first appearance and entries in declaration order; without a   *)
(* filter every entry appears exactly once under its category; with a      *)
(* filter, whatever string it is, only the entries of exactly that         *)
(* category appear, and a filter that matches no entry gives an empty      *)
(* result and no error.                                                    *)
C15_ListGroupsAndFilters ==
  (Completed /\ proc.cmd = "list")
    => /\ GroupedInCatalogOrder(proc.out,
             IF proc.category = Undefined THEN RegistryKeys ELSE InCategory(proc.category))
       /\ proc.exit = 0
       /\ fs = fs0

(* C15 amended: as claimed for every filter that is not the empty string;  *)
(* an empty filter string is no filter, and every entry appears.           *)
C15_ListGroupsAndFiltersNonEmpty ==
  (Completed /\ proc.cmd = "list")
    => /\ GroupedInCatalogOrder(proc.out,
             IF proc.category \in {Undefined, <<>>} THEN RegistryKeys ELSE InCategory(proc.category))
       /\ proc.exit = 0
       /\ fs = fs0

C15_Witness ==
  /\ Completed /\ proc.cmd = "list" /\ proc.category = Cat_frontend
  /\ Len(proc.out) = 1
  /\ Len(proc.out[1].skills) = 3
  /\ proc.out[1].skills[1].name = K_web_design_guidelines

(* s contains q, letter case ignored *)
ContainsIgnoringCase(s, q) == includes(toLowerCase(s), toLowerCase(q))

(* The entry's canonical name, description or category contains the query *)
EntryMatches(name, query) ==
  \/ ContainsIgnoringCase(name, query)
  \/ ContainsIgnoringCase(SKILLS_REGISTRY[name].description, query)
  \/ ContainsIgnoringCase(SKILLS_REGISTRY[name].category, query)

AliasesMatching(query) == {alias \in AliasKeys : ContainsIgnoringCase(alias, query)}

CarriesDescriptor(result) ==
  /\ result.name \in RegistryKeys
  /\ result.path = SKILLS_REGISTRY[result.name].path
  /\ result.category = SKILLS_REGISTRY[result.name].category
  /\ result.description = SKILLS_REGISTRY[result.name].description

(* C16: search(query) returns first, in catalog order, every entry whose   *)
(* canonical name, description or category contains the query, letter case *)
(* ignored; then, for each alias containing the query whose canonical      *)
(* entry is not yet among the results, that entry with the alias recorded; *)
(* nothing else is returned.                                               *)
C16_SearchTwoPasses ==
  (Completed /\ proc.cmd = "search")
    => LET results == proc.out
           direct == SelectSeq(RegistryOrder, LAMBDA name : EntryMatches(name, proc.query))
           byAlias == (Len(direct) + 1)..Len(results)
       IN  /\ Len(results) >= Len(direct)
           /\ \A i \in DOMAIN direct :
                /\ results[i].name = direct[i]
                /\ results[i].matchedAlias = Undefined
           /\ \A i \in byAlias :
                /\ results[i].matchedAlias \in AliasesMatching(proc.query)
                /\ results[i].name = SKILL_ALIASES[results[i].matchedAlias]
                /\ \A j \in 1..(i - 1) : results[j].name # results[i].name
                /\ \A alias \in AliasesMatching(proc.query) :
                     SKILL_ALIASES[alias] = results[i].name
                       => IndexOf(AliasOrder, results[i].matchedAlias) <= IndexOf(AliasOrder, alias)
           /\ \A i, k \in byAlias :
                i < k => IndexOf(AliasOrder, results[i].matchedAlias) < IndexOf(AliasOrder, results[k].matchedAlias)
           /\ \A alias \in AliasesMatching(proc.query) :
                \E i \in DOMAIN results : results[i].name = SKILL_ALIASES[alias]
           /\ \A i \in DOMAIN results : CarriesDescriptor(results[i])
           /\ fs = fs0

C16_Witness ==
  /\ Completed /\ proc.cmd = "search" /\ proc.query = Q_LL
  /\ Len(proc.out) = 3
  /\ proc.out[1].name = K_doc_coauthoring /\ proc.out[1].matchedAlias = Undefined
  /\ proc.out[2].name = K_bulletproof_react /\ proc.out[2].matchedAlias = Undefined
  /\ proc.out[3].name = K_create_auth /\ proc.out[3].matchedAlias = A_create_auth_skill

(* C17 as claimed: search("auth") returns better-auth and create-auth, and *)
(* the set of skills it returns is exactly those two.                      *)
C17_SearchAuthReturnsExactlyTwo ==
  (Completed /\ proc.cmd = "search" /\ proc.query = A_auth)
    => {proc.out[i].name : i \in DOMAIN proc.out} = {K_better_auth, K_create_auth}

(* C17 amended: search("auth") returns better-auth and create-auth, and    *)
(* the skills it returns are those two and doc-coauthoring, whose name     *)
(* contains "auth"; all three are matches of the first pass, returned in   *)
(* catalog order.                                                          *)
C17_SearchAuthReturnsThree ==
  (Completed /\ proc.cmd = "search" /\ proc.query = A_auth)
    => /\ Len(proc.out) = 3
       /\ proc.out[1].name = K_doc_coauthoring
       /\ proc.out[2].name = K_better_auth
       /\ proc.out[3].name = K_create_auth
       /\ \A i \in DOMAIN proc.out : proc.out[i].matchedAlias = Undefined

C17_Witness ==
  /\ Completed /\ proc.cmd = "search" /\ proc.query = A_auth
  /\ Logged("Found")
  /\ \E i \in DOMAIN proc.out : proc.out[i].name = K_better_auth
  /\ \E i \in DOMAIN proc.out : proc.out[i].name = K_create_auth

NothingMatches(query) ==
  /\ \A name \in RegistryKeys : ~EntryMatches(name, query)
  /\ AliasesMatching(query) = {}

(* C18: search("") returns every entry of the registry exactly once, in    *)
(* catalog order, none with a matched alias recorded; a query that no      *)
(* name, description, category or alias contains returns the empty         *)
(* sequence.                                                               *)
C18_SearchEmptyAndNoMatch ==
  (Completed /\ proc.cmd = "search")
    => /\ proc.query = <<>>
             => /\ Len(proc.out) = Len(RegistryOrder)
                /\ \A i \in DOMAIN proc.out :
                     proc.out[i].name = RegistryOrder[i] /\ proc.out[i].matchedAlias = Undefined
       /\ NothingMatches(proc.query) => proc.out = <<>> /\ proc.exit = 0

C18_Witness ==
  /\ Completed /\ proc.cmd = "search" /\ proc.query = <<>>
  /\ Len(proc.out) = 8
  /\ proc.out[1].name = K_pptx
  /\ proc.out[8].name = K_vercel_react

U_PowerPoint == <<"P","o","w","e","r","P","o","i","n","t">>

(* Names resolve is evaluated on besides the one the command was given *)
ResolveSamples == InputNames \cup AliasKeys \cup RegistryKeys \cup {U_PowerPoint, P___proto__, <<>>}

(* C19 as claimed: resolve(name) is the alias table's canonical name when  *)
(* the lower-cased name is an alias, and the input unchanged when it is    *)
(* not, for every input, upper-case letters included.                      *)
C19_ResolveAliasOrUnchanged ==
  proc.cmd \in Commands
    => LET name == proc.skillName
       IN  /\ toLowerCase(name) \in AliasKeys => ResolvedName = SKILL_ALIASES[toLowerCase(name)]
           /\ toLowerCase(name) \notin AliasKeys => ResolvedName = name

ResolvesLowercased(name, resolved) ==
  LET lower == toLowerCase(name)
  IN  /\ lower \in AliasKeys => resolved = SKILL_ALIASES[lower]
      /\ (lower \notin AliasKeys /\ lower \notin InheritedKeys) => resolved = lower
      /\ (lower \notin AliasKeys /\ lower \notin InheritedKeys /\ lower = name) => resolved = name
      /\ lower \in InheritedKeys => ~IsString(resolved)

(* C19 amended: resolve(name) is the alias table's canonical name when the *)
(* lower-cased name is an alias; otherwise it is the lower-cased name,     *)
(* which is the input unchanged only when the input has no upper-case      *)
(* letter; for a name that lower-cases to "constructor" or "__proto__" it  *)
(* is the inherited property and no string.  An add that succeeds creates  *)
(* the directory of that name.                                             *)
C19_ResolveAliasOrLowercased ==
  /\ proc.cmd \in Commands => ResolvesLowercased(proc.skillName, ResolvedName)
  /\ (Completed /\ proc.cmd = "add" /\ Outcome = "Installed")
       => LET lower == toLowerCase(proc.skillName)
          IN  PathExists(fs, TargetDir, IF lower \in AliasKeys THEN SKILL_ALIASES[lower] ELSE lower)
  /\ Idle => \A name \in ResolveSamples : ResolvesLowercased(name, resolveSkillName(name))

C19_Witness ==
  /\ Completed /\ proc.cmd = "add" /\ Outcome = "Installed"
  /\ proc.skillName = U_PPTX
  /\ ~PathExists(fs0, TargetDir, K_pptx)
  /\ PathExists(fs, TargetDir, K_pptx)
  /\ ~PathExists(fs, TargetDir, U_PPTX)

(* C20: every value of the alias table is a key of the registry, so for    *)
(* every alias A the registry lookup of resolve(A) finds a descriptor and  *)
(* install(A) never reports NotFound.                                      *)
C20_AliasesResolveToRegistry ==
  /\ (Completed /\ proc.cmd = "add" /\ toLowerCase(proc.skillName) \in AliasKeys)
       => /\ ResolvedName \in RegistryKeys
          /\ ~Logged("NotFound")
  /\ Idle => \A A \in AliasKeys :
       /\ SKILL_ALIASES[A] \in RegistryKeys
       /\ HasSkillInfo(resolveSkillName(A))
       /\ \A g \in BOOLEAN, y \in BOOLEAN : \A r \in Results("add", A, g, y, fs) :
            \A i \in DOMAIN r.log : r.log[i] # "NotFound"

C20_Witness ==
  /\ Completed /\ proc.cmd = "add" /\ proc.skillName = A_powerpoint
  /\ ResolvedName = K_pptx
  /\ SKILLS_REGISTRY[K_pptx].path \notin packaged
  /\ Outcome = "SourceMissing"
  /\ ~Logged("NotFound")

(* C21: update is not atomic.  Between the removal phase of update(N) and  *)
(* the copy, the target directory of N is absent; a process that stops     *)
(* there leaves N uninstalled, and nothing changes the filesystem after    *)
(* the process has ended.                                                  *)
C21_UpdateNotAtomic ==
  [][ /\ (proc.cmd = "update" /\ proc.pc \in {"install", "install_copy"})
          => /\ ~PathExists(fs, TargetDir, ResolvedName)
             /\ ResolvedName \notin listInstalled(fs, proc.global)
      /\ (proc.cmd = "update" /\ proc.pc \in {"install", "install_copy"}
            /\ proc'.pc = "exited" /\ Last(proc'.log) = "Interrupted")
          => /\ fs' = fs
             /\ ~PathExists(fs', TargetDir, ResolvedName)
      /\ proc.pc = "exited" => fs' = fs ]_vars

C21_Witness ==
  /\ proc.cmd = "update" /\ proc.pc = "exited" /\ Outcome = "Interrupted"
  /\ Logged("Removed")
  /\ proc.skillName = K_pptx
  /\ K_pptx \in listInstalled(fs0, proc.global)
  /\ ~PathExists(fs, TargetDir, K_pptx)

(* C22: no rollback.  When install(N) overwrites an existing target and    *)
(* the copy fails after the old directory has been deleted, the process    *)
(* ends with a non-zero exit code and the old directory is not restored:   *)
(* the target is absent, or holds a part of the packaged tree only.        *)
C22_NoRollback ==
  (Completed /\ proc.cmd = "add" /\ PathExists(fs0, TargetDir, ResolvedName) /\ Outcome = "InstallFailed")
    => /\ proc.exit # 0
       /\ \/ ~PathExists(fs, TargetDir, ResolvedName)
          \/ LET left == fs[TargetDir].entries[ResolvedName]
             IN  /\ left # fs0[TargetDir].entries[ResolvedName]
                 /\ DOMAIN left \subseteq DOMAIN SourceTree
                 /\ DOMAIN left # DOMAIN SourceTree
                 /\ \A x \in DOMAIN left : left[x] = SourceTree[x]
       /\ \A d \in DOMAIN fs0[TargetDir].entries :
            d # ResolvedName => PathExists(fs, TargetDir, d) /\ fs[TargetDir].entries[d] = fs0[TargetDir].entries[d]

C22_Witness ==
  /\ Completed /\ proc.cmd = "add" /\ proc.skillName = K_pptx /\ Outcome = "InstallFailed"
  /\ K_pptx \in listInstalled(fs0, proc.global)
  /\ PathExists(fs, TargetDir, K_pptx)
  /\ DOMAIN fs[TargetDir].entries[K_pptx] = {ApiLayerMd}
  /\ K_pptx \notin listInstalled(fs, proc.global)
  /\ proc.exit = 1

(* Reports after which the core calls process.exit(1) *)
ExitingOutcomes == {"NotFound", "SourceMissing", "InstallFailed", "RemoveFailed"}

(* list and search invocations the read-only commands are run with *)
CatalogInvocations ==
  {[Dispatch("list", <<>>, FALSE, FALSE) EXCEPT !.category = c] : c \in CategoryOptions}
    \cup {[Dispatch("search", <<>>, FALSE, FALSE) EXCEPT !.query = q] : q \in {<<>>, A_auth, Q_kubernetes}}

(* C23 as claimed: install, remove, update, listInstalled, listCatalog and *)
(* search never terminate the process themselves: on every outcome,        *)
(* NotFound, SourceMissing and filesystem failure included, they return to *)
(* the command surface.                                                    *)
C23_CoreNeverTerminates ==
  Completed => proc.ended # "process.exit"

(* C23 amended: install, remove and update terminate the process           *)
(* themselves, with exit code 1, exactly when they report NotFound,        *)
(* SourceMissing or a filesystem failure caught by their try blocks; in    *)
(* update a failed removal ends the process before the install phase.  On  *)
(* every other outcome they return and the exit code is 0, unless a        *)
(* promise was rejected outside the try blocks.  listInstalled,            *)
(* listCatalog and search always return.                                   *)
C23_CoreTerminatesOnErrors ==
  /\ Completed
       => /\ proc.ended = "process.exit" <=> Outcome \in ExitingOutcomes
          /\ proc.ended = "process.exit" => proc.exit = 1 /\ proc.cmd \in Commands
          /\ proc.ended = "returned" <=> Outcome \notin ExitingOutcomes \cup {"UnhandledRejection"}
          /\ proc.ended = "returned" => proc.exit = 0
          /\ proc.cmd = "installed" => proc.ended = "returned"
          /\ (proc.cmd = "update" /\ Logged("RemoveFailed")) => Outcome = "RemoveFailed"
  /\ Idle => \A p \in CatalogInvocations : \A r \in Runs(p, fs) :
       r.p.ended = "returned" /\ r.p.exit = 0

C23_Witness ==
  /\ Completed /\ proc.cmd = "update" /\ Outcome = "RemoveFailed"
  /\ proc.ended = "process.exit"
  /\ proc.exit = 1
  /\ fs # fs0

(* C24: update removes before any registry or source check.  When          *)
(* update(N) ends with NotFound or SourceMissing and a directory of the    *)
(* resolved name existed under the scope root beforehand, that directory   *)
(* has been deleted and the skill is left uninstalled.                     *)
C24_UpdateRemovesBeforeChecks ==
  (Completed /\ proc.cmd = "update" /\ Outcome \in {"NotFound", "SourceMissing"}
     /\ PathExists(fs0, TargetDir, ResolvedName))
    => /\ Logged("Removed")
       /\ ~Logged("ConfirmRemove")
       /\ ~PathExists(fs, TargetDir, ResolvedName)
       /\ ResolvedName \notin listInstalled(fs, proc.global)

C24_Witness ==
  /\ Completed /\ proc.cmd = "update" /\ Outcome = "NotFound"
  /\ proc.skillName = U_my_skill
  /\ U_my_skill \in listInstalled(fs0, proc.global)
  /\ ~PathExists(fs, TargetDir, U_my_skill)

(* C25: for every name D that listInstalled reports in a scope, custom     *)
(* directories, names with upper-case letters and directories named like   *)
(* an alias included, remove(D) with confirmation skipped in that scope    *)
(* deletes the directory D and no other directory, so that D is no longer  *)
(* listed.  Runs in which the filesystem refuses the removal are left out. *)
C25_RemoveListedDeletesExactlyIt ==
  (Completed /\ proc.cmd = "remove" /\ proc.yes /\ proc.prior = "none"
     /\ proc.skillName \in listInstalled(fs0, proc.global)
     /\ Outcome # "RemoveFailed")
    => /\ ~PathExists(fs, TargetDir, proc.skillName)
       /\ proc.skillName \notin listInstalled(fs, proc.global)
       /\ \A d \in DOMAIN fs0[TargetDir].entries :
            d # proc.skillName
              => PathExists(fs, TargetDir, d) /\ fs[TargetDir].entries[d] = fs0[TargetDir].entries[d]

(* The first alias, in the order of the alias table, among a set of them *)
FirstAlias(aliases) ==
  CHOOSE a \in aliases : \A b \in aliases : IndexOf(AliasOrder, a) <= IndexOf(AliasOrder, b)

====
